---- MODULE Spec2Model ----
(***************************************************************************)
(* Model of wyoming_vosk/__main__.py: the process-wide model cache         *)
(* (State.get_model) and the per-connection event handler                  *)
(* (VoskEventHandler.handle_event) running as tasks of one asyncio event   *)
(* loop.                                                                   *)
(***************************************************************************)
EXTENDS Integers, Sequences, FiniteSets, TLC

(* ---------------------------- bounds ----------------------------------- *)

\* number of client connections (one VoskEventHandler each)
NumSessions == 2

\* number of things the clients do, over all connections: events sent and
\* connections closed
MaxEvents == 4

Sessions == 1..NumSessions

(* ------------------------- values of the program ----------------------- *)

\* Python's None, for the Optional[str] fields
None == "None"

\* bool(x) of an Optional[str]: None and the empty string are falsy
Truthy(x) == x \notin {None, ""}

\* `a or b` of Python
Or(a, b) == IF Truthy(a) THEN a ELSE b

\* what MODELS[language] raises for a language without a catalog entry
KeyError == "KeyError"

\* what a list raises for an index outside it
IndexError == "IndexError"

\* the name could not be settled: get_model raised
Raised(n) == n \in {KeyError, IndexError}

\* list[i] of Python: i counts from 0, a negative i counts from the end
PyIndex(list, i) ==
  IF i \in 0..(Len(list) - 1) THEN list[i + 1]
  ELSE IF i \in (0 - Len(list))..(0 - 1) THEN list[Len(list) + i + 1]
  ELSE IndexError

\* the catalog: language -> ordered list of model names
MODELS == [l \in {"en", "de"} |->
             IF l = "en" THEN <<"model-a", "model-b">> ELSE <<"model-d">>]

\* --data-dir, in the order given on the command line
DataDirs == <<"d1", "d2">>

\* --download-dir, defaulting to the first data dir
DownloadDir == DataDirs[1]

\* languages text_to_num.alpha2digit accepts; any other value raises
Alpha2DigitLanguages == {"en", "de"}

\* the values a client can put in Transcribe.language and Transcribe.name
EventLanguages == {None, "en", "zz"}
EventNames == {None, "model-b"}

\* --correct-sentences not given: args.correct_sentences is None
NoCutoff == -1

\* the command lines the process is started with
ArgsChoices ==
  { [ language |-> "en", model_index |-> 0,
      model_for_language |-> [l \in {} |-> "model-o"],
      limit_sentences |-> FALSE, allow_unknown |-> FALSE,
      casing_for_language |-> [l \in {} |-> "keep"],
      correct_sentences |-> NoCutoff ],
    [ language |-> "de", model_index |-> 5,
      model_for_language |-> [l \in {"en"} |-> "model-o"],
      limit_sentences |-> TRUE, allow_unknown |-> TRUE,
      casing_for_language |-> [l \in {"en"} |-> "upper"],
      correct_sentences |-> 0 ] }

\* the model directories present under the data dirs when the process starts
DiskChoices == { {}, {<<"d2", "model-a">>, <<"d1", "model-b">>, <<"d2", "model-b">>} }

\* a (model_name, model) tuple that is absent
NoModel == [name |-> None, model |-> 0]

\* KaldiRecognizer(model, 16000): no word list, any word can be recognized
OpenVocabulary == [limited |-> FALSE, words |-> <<>>]

\* self.recognizer is None
NoRecognizer == [serial |-> 0, model |-> 0, grammar |-> OpenVocabulary]

\* no pure function is under examination
NoCall == [fn |-> "none"]

\* no handler is inside download_model
NotBlocking == [s |-> 0, given |-> None, language |-> None, requested |-> None,
                name |-> None]

VARIABLES
  args,        \* the parsed command line (argparse.Namespace)
  disk,        \* the model directories on disk: pairs <<data dir, model name>>
  models,      \* State.models: model name -> (model name, Model)
  loaded,      \* every (model name, Model) tuple built by Model(...) so far
  blocking,    \* the handler that is inside download_model, holding the event loop
  log,         \* one record per completed State.get_model call
  droppedDuring, \* pairs <<t, s>>: the client of t closed its connection
               \* while the handler of s was inside download_model
  status,      \* per session: "open", "dropped" (the client closed the
               \* connection, the task has not read that yet), "done"
               \* (handle_event returned False), "error" (it raised), "closed"
  language,    \* per session: self.language
  model_name,  \* per session: self.model_name
  recognizer,  \* per session: self.recognizer
  built,       \* per session: number of KaldiRecognizer objects constructed
  fed,         \* per session: number of AcceptWaveform calls
  nEvents,     \* number of events sent and connections closed by the clients
  nInfo,       \* per session: number of Info events written
  nTranscript, \* per session: number of Transcript events written
  call         \* a call of one function of the program with its arguments and,
               \* once made, its result (the specifications of single functions)

shared == <<call, args, disk, models, loaded, blocking, log, droppedDuring>>
vars == <<call, args, disk, models, loaded, blocking, log, droppedDuring, status,
          language, model_name, recognizer, built, fed, nEvents, nInfo,
          nTranscript>>

(* ------------------------------ State ---------------------------------- *)

Min(a, b) == IF a < b THEN a ELSE b

\* dict.get(key, default)
DictGet(d, k, default) == IF k \in DOMAIN d THEN d[k] ELSE default

\* `if not model_name` after the override: get_model goes to the catalog
ConsultsCatalog(a, lang, name) ==
  ~Truthy(DictGet(a.model_for_language, lang, name))

\* a get_model that lets the requested name win over the override
ResolveNameRequestedFirst(a, lang, name) ==
  LET n == Or(name, DictGet(a.model_for_language, lang, name))
  IN  IF Truthy(n) THEN n
      ELSE IF lang \in DOMAIN MODELS
           THEN PyIndex(MODELS[lang], Min(a.model_index, Len(MODELS[lang]) - 1))
           ELSE KeyError

\* the model name get_model settles on, or the exception it raises
ResolveName(a, lang, name) ==
  LET n == DictGet(a.model_for_language, lang, name)
  IN  IF ~ConsultsCatalog(a, lang, name) THEN n
      ELSE IF lang \in DOMAIN MODELS
           THEN PyIndex(MODELS[lang], Min(a.model_index, Len(MODELS[lang]) - 1))
           ELSE KeyError

\* a lookup that never finds the entry
CacheLookupMiss(cache, name) == NoModel

\* self.models.get(model_name)
CacheLookup(cache, name) == DictGet(cache, name, NoModel)

\* a search that goes on to the last data dir holding the directory
LastDir(dsk, name) ==
  LET hits == {i \in 1..Len(DataDirs) : <<DataDirs[i], name>> \in dsk}
  IN  IF hits = {} THEN 0 ELSE CHOOSE i \in hits : \A j \in hits : i >= j

\* index of the first data dir that holds a directory named `name`, else 0
FirstDir(dsk, name) ==
  LET hits == {i \in 1..Len(DataDirs) : <<DataDirs[i], name>> \in dsk}
  IN  IF hits = {} THEN 0 ELSE CHOOSE i \in hits : \A j \in hits : i <= j

\* Model(str(model_dir)) paired with its name
NewModel(name) == [name |-> name, model |-> Cardinality(loaded) + 1]

\* a store that keeps only the newest entry
CacheStoreEvicts(cache, name, nm) == [n \in {name} |-> nm]

\* self.models[model_name] = name_and_model
CacheStore(cache, name, nm) ==
  [n \in DOMAIN cache \cup {name} |-> IF n = name THEN nm ELSE cache[n]]

\* get_model searching the data dirs before it looks in the cache
get_modelDiskFirst(lang, name) ==
  LET n == ResolveName(args, lang, name)
      d == FirstDir(disk, n)
  IN  IF Raised(n)
      THEN [kind |-> "raise", name |-> None, result |-> NoModel, checks |-> 0]
      ELSE IF d # 0
      THEN [kind |-> "disk", name |-> n, result |-> NewModel(n), checks |-> d]
      ELSE IF CacheLookup(models, n) # NoModel
      THEN [kind |-> "cached", name |-> n, result |-> CacheLookup(models, n),
            checks |-> Len(DataDirs)]
      ELSE [kind |-> "download", name |-> n, result |-> NoModel,
            checks |-> Len(DataDirs)]

\* the part of get_model that runs before download_model is reached
get_model(lang, name) ==
  LET n == ResolveName(args, lang, name)
      d == FirstDir(disk, n)
  IN  IF Raised(n)
      THEN [kind |-> "raise", name |-> None, result |-> NoModel, checks |-> 0]
      ELSE IF CacheLookup(models, n) # NoModel
      THEN [kind |-> "cached", name |-> n, result |-> CacheLookup(models, n),
            checks |-> 0]
      ELSE IF d # 0
      THEN [kind |-> "disk", name |-> n, result |-> NewModel(n), checks |-> d]
      ELSE [kind |-> "download", name |-> n, result |-> NoModel,
            checks |-> Len(DataDirs)]

\* the record of one get_model call: `given` is self.language as the
\* AudioChunk handler found it, `language` and `requested` are the arguments
LogEntry(s, lang, name, r, download, result) ==
  [ s |-> s, given |-> IF blocking.s = s THEN blocking.given ELSE language[s],
    language |-> lang, requested |-> name, name |-> r.name,
    kind |-> r.kind, checks |-> r.checks, download |-> download,
    loads |-> IF result # NoModel /\ r.kind # "cached" THEN 1 ELSE 0,
    result |-> result ]

(* --------------------------- words and text --------------------------- *)

\* A word is a sequence of characters, a text a sequence of words (the words
\* str.split() gives; the text is the words joined by single spaces).

\* the letters of the words below, as <<lower case, upper case>>
CasePairs == { <<"e", "E">>, <<"k", "K">>, <<"n", "N">>, <<"o", "O">>,
               <<"s", "S">>, <<"t", "T">>, <<"u", "U">>, <<"w", "W">>,
               <<"y", "Y">> }

\* str.lower() of one character
LowerChar(c) ==
  IF \E p \in CasePairs : p[2] = c
  THEN <<(CHOOSE p \in CasePairs : p[2] = c)[1]>>
  ELSE <<c>>

\* str.upper() of one character ("sz" stands for the one letter U+00DF)
UpperChar(c) ==
  IF c = "sz" THEN <<"S", "S">>
  ELSE IF \E p \in CasePairs : p[1] = c
  THEN <<(CHOOSE p \in CasePairs : p[1] = c)[2]>>
  ELSE <<c>>

\* str.casefold() of one character
FoldChar(c) == IF c = "sz" THEN <<"s", "s">> ELSE LowerChar(c)

\* _CASING[name](w)
RECURSIVE ApplyCasing(_, _)
ApplyCasing(name, w) ==
  IF w = <<>> THEN <<>>
  ELSE (CASE name = "casefold" -> FoldChar(Head(w))
          [] name = "lower" -> LowerChar(Head(w))
          [] name = "upper" -> UpperChar(Head(w))
          [] name = "keep" -> <<Head(w)>>)
       \o ApplyCasing(name, Tail(w))

CasingNames == {"casefold", "lower", "upper", "keep"}

DEFAULT_CASING == "casefold"

\* "[unk]"
DEFAULT_UNK == <<"[", "u", "n", "k", "]">>

\* the words of the examples
WordYes == <<"y", "e", "s">>
WordNo == <<"N", "o">>
WordEszett == <<"sz">>
WordTwo == <<"t", "w", "o">>
WordDigit2 == <<"2">>
WordAltUnk == <<"<", "u", "n", "k", ">">>

\* download.CASING_FOR_MODEL: model name -> casing name
CASING_FOR_MODEL == [n \in {"model-b"} |-> "lower"]

\* download.UNK_FOR_MODEL: model name -> unknown token
UNK_FOR_MODEL == [n \in {"model-d"} |-> WordAltUnk]

\* load_sentences_for_language returned None
NoConfig == [exists |-> FALSE, db |-> FALSE, words |-> <<>>,
             has_unknown_text |-> FALSE, unknown_text |-> <<>>,
             sentence |-> <<>>]

\* sentences.load_sentences_for_language(sentences_dir, language, database_dir)
\* of the running server: English has sentences and a word database, "zz"
\* has sentences but no database file, the other languages have nothing
load_sentences_for_language(lang) ==
  IF lang = "en"
  THEN [exists |-> TRUE, db |-> TRUE, words |-> <<WordYes, WordNo>>,
        has_unknown_text |-> FALSE, unknown_text |-> <<>>,
        sentence |-> <<WordYes>>]
  ELSE IF lang = "zz"
  THEN [exists |-> TRUE, db |-> FALSE, words |-> <<>>,
        has_unknown_text |-> FALSE, unknown_text |-> <<>>,
        sentence |-> <<WordYes>>]
  ELSE NoConfig

\* UNK_FOR_MODEL.get(self.model_name, _DEFAULT_UNK)
UnkToken(mname) == DictGet(UNK_FOR_MODEL, mname, DEFAULT_UNK)

\* the casing name _load_recognizer settles on
CasingFor(a, lang, mname) ==
  DictGet(CASING_FOR_MODEL, mname,
          DictGet(a.casing_for_language, lang, DEFAULT_CASING))

\* the word list before casing: the words of the database, then the unknown
\* token if --allow-unknown
WordsToCase(a, cfg, mname) ==
  IF a.allow_unknown THEN Append(cfg.words, UnkToken(mname)) ELSE cfg.words

\* [casing_func(w) for w in words]
CaseAll(casing, words) ==
  [i \in 1..Len(words) |-> ApplyCasing(casing, words[i])]

\* a _load_recognizer that limits the recognizer to the words it has, none
\* at all when the language has no word database
VocabularyStrict(a, cfg, lang, mname) ==
  IF a.limit_sentences
  THEN [limited |-> TRUE,
        words |-> CaseAll(CasingFor(a, lang, mname), WordsToCase(a, cfg, mname))]
  ELSE OpenVocabulary

\* the word list _load_recognizer hands to KaldiRecognizer, or none
Vocabulary(a, cfg, lang, mname) ==
  IF a.limit_sentences /\ cfg.exists /\ cfg.db
  THEN [limited |-> TRUE,
        words |-> CaseAll(CasingFor(a, lang, mname), WordsToCase(a, cfg, mname))]
  ELSE OpenVocabulary

\* text_to_num.alpha2digit(text, language) for a language it accepts: number
\* words become digits, other words stay
alpha2digit(text) ==
  [i \in 1..Len(text) |-> IF text[i] = WordTwo THEN WordDigit2 ELSE text[i]]

\* _has_unknown(text)
has_unknown(text, mname) ==
  LET unk_token == UnkToken(mname)
  IN  text = <<unk_token>> \/ \E i \in 1..Len(text) : text[i] = unk_token

\* sentences.correct_sentence(text, lang_config, score_cutoff): the sentence
\* of the configuration closest to the text
correct_sentence(text, cfg, cutoff) == cfg.sentence

\* `lang_config.unknown_text or ""`
UnknownText(cfg) ==
  IF cfg.exists /\ cfg.has_unknown_text THEN cfg.unknown_text ELSE <<>>

\* _fix_transcript(text): the text returned and whether correct_sentence ran
fix_transcript(a, cfg, mname, text) ==
  IF a.allow_unknown /\ has_unknown(text, mname)
  THEN [text |-> UnknownText(cfg), corrected |-> FALSE]
  ELSE IF ~cfg.exists
  THEN [text |-> text, corrected |-> FALSE]
  ELSE [text |-> correct_sentence(text, cfg, a.correct_sentences),
        corrected |-> TRUE]

\* the AudioStop branch from FinalResult() to the Transcript: what is raised
\* or written for the recognizer's text `raw`
FinalText(a, cfg, lang, mname, raw) ==
  IF lang \notin Alpha2DigitLanguages
  THEN [raised |-> TRUE, text |-> <<>>, corrected |-> FALSE]
  ELSE IF a.correct_sentences = NoCutoff
  THEN [raised |-> FALSE, text |-> alpha2digit(raw), corrected |-> FALSE]
  ELSE LET f == fix_transcript(a, cfg, mname, alpha2digit(raw))
       IN  [raised |-> FALSE, text |-> f.text, corrected |-> f.corrected]

(* ------------------------- VoskEventHandler ---------------------------- *)

\* the event loop runs one handler at a time; a handler inside the
\* synchronous download_model keeps it
LoopFree == blocking = NotBlocking

\* the connection's task can take its next event
CanHandle(s) ==
  /\ LoopFree
  /\ status[s] = "open"
  /\ nEvents < MaxEvents

\* a handler that loads a recognizer on every chunk
NeedsRecognizerAlways(rec) == TRUE

\* `if self.recognizer is None`
NeedsRecognizer(rec) == rec = NoRecognizer

\* self._load_recognizer(model), with self.language and self.model_name as
\* the AudioChunk handler has set them by then
LoadRecognizer(s, nm) ==
  LET lang == Or(language[s], args.language)
  IN  [serial |-> built[s] + 1, model |-> nm.model,
       grammar |-> Vocabulary(args, load_sentences_for_language(lang), lang,
                              nm.name)]

\* State(args) and the handlers as constructed: nothing cached, nothing received
Fresh ==
  /\ models = [n \in {} |-> NoModel]
  /\ loaded = {}
  /\ blocking = NotBlocking
  /\ log = <<>>
  /\ droppedDuring = {}
  /\ status = [s \in Sessions |-> "open"]
  /\ language = [s \in Sessions |-> None]
  /\ model_name = [s \in Sessions |-> None]
  /\ recognizer = [s \in Sessions |-> NoRecognizer]
  /\ built = [s \in Sessions |-> 0]
  /\ fed = [s \in Sessions |-> 0]
  /\ nEvents = 0
  /\ nInfo = [s \in Sessions |-> 0]
  /\ nTranscript = [s \in Sessions |-> 0]

Init ==
  /\ args \in ArgsChoices
  /\ disk \in DiskChoices
  /\ call = NoCall
  /\ Fresh

\* a Describe that also starts the session over
DescribeResets(s) ==
  /\ CanHandle(s)
  /\ nEvents' = nEvents + 1
  /\ nInfo' = [nInfo EXCEPT ![s] = @ + 1]
  /\ language' = [language EXCEPT ![s] = None]
  /\ model_name' = [model_name EXCEPT ![s] = None]
  /\ recognizer' = [recognizer EXCEPT ![s] = NoRecognizer]
  /\ UNCHANGED <<shared, status, built, fed, nTranscript>>

\* Describe: write the Info event
Describe(s) ==
  /\ CanHandle(s)
  /\ nEvents' = nEvents + 1
  /\ nInfo' = [nInfo EXCEPT ![s] = @ + 1]
  /\ UNCHANGED <<shared, status, language, model_name, recognizer,
                 built, fed, nTranscript>>

\* a Transcribe that loads the recognizer at once when the model is at hand
TranscribeEager(s, lang, name) ==
  LET l == Or(lang, args.language)
      r == get_model(l, name)
  IN  /\ CanHandle(s)
      /\ nEvents' = nEvents + 1
      /\ language' = [language EXCEPT ![s] = lang]
      /\ UNCHANGED <<call, args, disk, blocking, droppedDuring, status, fed, nInfo,
                     nTranscript>>
      /\ IF r.kind \in {"cached", "disk"}
         THEN /\ loaded' = loaded \cup {r.result}
              /\ models' = CacheStore(models, r.name, r.result)
              /\ model_name' = [model_name EXCEPT ![s] = r.name]
              /\ recognizer' = [recognizer EXCEPT ![s] = LoadRecognizer(s, r.result)]
              /\ built' = [built EXCEPT ![s] = @ + 1]
              /\ log' = Append(log, LogEntry(s, l, name, r, "none", r.result))
         ELSE /\ model_name' = [model_name EXCEPT ![s] = name]
              /\ UNCHANGED <<models, loaded, log, recognizer, built>>

\* Transcribe: set language/model
Transcribe(s, lang, name) ==
  /\ CanHandle(s)
  /\ nEvents' = nEvents + 1
  /\ language' = [language EXCEPT ![s] = lang]
  /\ model_name' = [model_name EXCEPT ![s] = name]
  /\ UNCHANGED <<shared, status, recognizer, built, fed, nInfo,
                 nTranscript>>

\* AudioStart: recognized, nothing done
AudioStart(s) ==
  /\ CanHandle(s)
  /\ nEvents' = nEvents + 1
  /\ UNCHANGED <<shared, status, language, model_name, recognizer,
                 built, fed, nInfo, nTranscript>>

\* the handler got its (model_name, model): build the recognizer, feed the chunk
GotModel(s, nm) ==
  /\ model_name' = [model_name EXCEPT ![s] = nm.name]
  /\ recognizer' = [recognizer EXCEPT ![s] = LoadRecognizer(s, nm)]
  /\ built' = [built EXCEPT ![s] = @ + 1]
  /\ fed' = [fed EXCEPT ![s] = @ + 1]

\* AudioChunk: load the recognizer on the first chunk, then feed the chunk.
\* A get_model that reaches download_model leaves the handler inside it.
AudioChunk(s) ==
  /\ CanHandle(s)
  /\ nEvents' = nEvents + 1
  /\ UNCHANGED <<call, args, disk, droppedDuring, nInfo, nTranscript>>
  /\ IF ~NeedsRecognizer(recognizer[s])
     THEN /\ fed' = [fed EXCEPT ![s] = @ + 1]
          /\ UNCHANGED <<models, loaded, blocking, log, status, language,
                         model_name, recognizer, built>>
     ELSE LET lang == Or(language[s], args.language)
              r == get_model(lang, model_name[s])
          IN  /\ language' = [language EXCEPT ![s] = lang]
              /\ CASE r.kind = "raise" ->
                        /\ status' = [status EXCEPT ![s] = "error"]
                        /\ log' = Append(log, LogEntry(s, lang, model_name[s], r,
                                                       "none", NoModel))
                        /\ UNCHANGED <<models, loaded, blocking, model_name,
                                       recognizer, built, fed>>
                   [] r.kind = "cached" ->
                        /\ GotModel(s, r.result)
                        /\ log' = Append(log, LogEntry(s, lang, model_name[s], r,
                                                       "none", r.result))
                        /\ UNCHANGED <<models, loaded, blocking, status>>
                   [] r.kind = "disk" ->
                        /\ loaded' = loaded \cup {r.result}
                        /\ models' = CacheStore(models, r.name, r.result)
                        /\ GotModel(s, r.result)
                        /\ log' = Append(log, LogEntry(s, lang, model_name[s], r,
                                                       "none", r.result))
                        /\ UNCHANGED <<blocking, status>>
                   [] r.kind = "download" ->
                        /\ blocking' = [s |-> s, given |-> language[s],
                                        language |-> lang,
                                        requested |-> model_name[s],
                                        name |-> r.name]
                        /\ UNCHANGED <<models, loaded, log, status, model_name,
                                       recognizer, built, fed>>

\* download_model(language, model_name, download_dir): the disk once it has
\* returned the path of the model directory
download_model(dsk, name) == dsk \cup {<<DownloadDir, name>>}

\* the shape get_model has when it comes back from download_model
AfterDownload == [kind |-> "download", name |-> blocking.name,
                  result |-> NoModel, checks |-> Len(DataDirs)]

\* download_model returned a path: load, cache, build the recognizer, feed
DownloadReturn(s) ==
  /\ blocking.s = s
  /\ LET nm == NewModel(blocking.name)
     IN  /\ disk' = download_model(disk, blocking.name)
         /\ loaded' = loaded \cup {nm}
         /\ models' = CacheStore(models, blocking.name, nm)
         /\ GotModel(s, nm)
         /\ log' = Append(log, LogEntry(s, blocking.language, blocking.requested,
                                        AfterDownload, "ok", nm))
  /\ blocking' = NotBlocking
  /\ UNCHANGED <<call, args, droppedDuring, status, language, nEvents, nInfo,
                 nTranscript>>

\* a failed download that leaves an entry for the name in the cache
DownloadRaiseCaches(s) ==
  /\ blocking.s = s
  /\ status' = [status EXCEPT ![s] = "error"]
  /\ models' = CacheStore(models, blocking.name, NewModel(blocking.name))
  /\ log' = Append(log, LogEntry(s, blocking.language, blocking.requested,
                                 AfterDownload, "fail", NoModel))
  /\ blocking' = NotBlocking
  /\ UNCHANGED <<call, args, disk, loaded, droppedDuring, language, model_name,
                 recognizer, built, fed, nEvents, nInfo, nTranscript>>

\* download_model raised: the exception ends the connection's task
DownloadRaise(s) ==
  /\ blocking.s = s
  /\ status' = [status EXCEPT ![s] = "error"]
  /\ log' = Append(log, LogEntry(s, blocking.language, blocking.requested,
                                 AfterDownload, "fail", NoModel))
  /\ blocking' = NotBlocking
  /\ UNCHANGED <<call, args, disk, models, loaded, droppedDuring, language,
                 model_name, recognizer, built, fed, nEvents, nInfo,
                 nTranscript>>

\* an AudioStop that ignores the event when there is no recognizer
AudioStopLenient(s) ==
  /\ CanHandle(s)
  /\ nEvents' = nEvents + 1
  /\ IF recognizer[s] = NoRecognizer
     THEN UNCHANGED <<status, nTranscript>>
     ELSE IF language[s] \notin Alpha2DigitLanguages
     THEN /\ status' = [status EXCEPT ![s] = "error"]
          /\ UNCHANGED nTranscript
     ELSE /\ status' = [status EXCEPT ![s] = "done"]
          /\ nTranscript' = [nTranscript EXCEPT ![s] = @ + 1]
  /\ UNCHANGED <<shared, language, model_name, recognizer, built, fed, nInfo>>

\* an AudioStop that writes the Transcript and goes on to `return True`
AudioStopContinues(s) ==
  /\ CanHandle(s)
  /\ nEvents' = nEvents + 1
  /\ IF recognizer[s] = NoRecognizer \/ language[s] \notin Alpha2DigitLanguages
     THEN /\ status' = [status EXCEPT ![s] = "error"]
          /\ UNCHANGED nTranscript
     ELSE /\ nTranscript' = [nTranscript EXCEPT ![s] = @ + 1]
          /\ UNCHANGED status
  /\ UNCHANGED <<shared, language, model_name, recognizer, built, fed, nInfo>>

\* AudioStop: final result, Transcript event, handle_event returns False
AudioStop(s) ==
  /\ CanHandle(s)
  /\ nEvents' = nEvents + 1
  /\ IF recognizer[s] = NoRecognizer \/ language[s] \notin Alpha2DigitLanguages
     THEN /\ status' = [status EXCEPT ![s] = "error"]
          /\ UNCHANGED nTranscript
     ELSE /\ status' = [status EXCEPT ![s] = "done"]
          /\ nTranscript' = [nTranscript EXCEPT ![s] = @ + 1]
  /\ UNCHANGED <<shared, language, model_name, recognizer, built, fed,
                 nInfo>>

\* any other event type: logged, ignored
Unexpected(s) ==
  /\ CanHandle(s)
  /\ nEvents' = nEvents + 1
  /\ UNCHANGED <<shared, status, language, model_name, recognizer,
                 built, fed, nInfo, nTranscript>>

\* a connection close that cancels the download in flight
ClientDropCancels(s) ==
  /\ status[s] = "open"
  /\ nEvents < MaxEvents
  /\ nEvents' = nEvents + 1
  /\ status' = [status EXCEPT ![s] = "dropped"]
  /\ droppedDuring' = IF LoopFree THEN droppedDuring
                      ELSE droppedDuring \cup {<<s, blocking.s>>}
  /\ blocking' = NotBlocking
  /\ UNCHANGED <<call, args, disk, models, loaded, log, language, model_name,
                 recognizer, built, fed, nInfo, nTranscript>>

\* the client closes its connection; it needs nothing from the server
ClientDrop(s) ==
  /\ status[s] = "open"
  /\ nEvents < MaxEvents
  /\ nEvents' = nEvents + 1
  /\ status' = [status EXCEPT ![s] = "dropped"]
  /\ droppedDuring' = IF LoopFree THEN droppedDuring
                      ELSE droppedDuring \cup {<<s, blocking.s>>}
  /\ UNCHANGED <<call, args, disk, models, loaded, blocking, log, language,
                 model_name, recognizer, built, fed, nInfo, nTranscript>>

\* the connection's task reads end of stream and calls disconnect
Disconnect(s) ==
  /\ LoopFree
  /\ status[s] = "dropped"
  /\ status' = [status EXCEPT ![s] = "closed"]
  /\ UNCHANGED <<shared, language, model_name, recognizer, built, fed,
                 nEvents, nInfo, nTranscript>>

Next ==
  \E s \in Sessions :
    \/ Describe(s)
    \/ \E lang \in EventLanguages, name \in EventNames : Transcribe(s, lang, name)
    \/ AudioStart(s)
    \/ AudioChunk(s)
    \/ DownloadReturn(s)
    \/ DownloadRaise(s)
    \/ AudioStop(s)
    \/ Unexpected(s)
    \/ ClientDrop(s)
    \/ Disconnect(s)

Spec == Init /\ [][Next]_vars

(* --------------------- State.get_model on its own ---------------------- *)

\* --model-index takes any int from -MaxIndex to MaxIndex
MaxIndex == 3

\* the --model-for-language settings tried: none, one for "en", one for a
\* language without catalog, one for "de" that the catalog lists for "en"
OverrideChoices ==
  { [l \in {} |-> "model-o"], [l \in {"en"} |-> "model-o"],
    [l \in {"zz"} |-> "model-o"], [l \in {"de"} |-> "model-b"] }

\* the command lines get_model is examined under
ResolveArgs ==
  { [a EXCEPT !.model_index = k, !.model_for_language = o] :
      a \in ArgsChoices, k \in (0 - MaxIndex)..MaxIndex, o \in OverrideChoices }

\* the arguments get_model is called with
ResolveLanguages == {"en", "de", "zz"}
RequestedNames == {None, "", "model-b", "model-x"}

\* every name get_model can settle on has a directory in the first data dir
ResolveDisk ==
  {<<DataDirs[1], n>> : n \in {"model-a", "model-b", "model-d", "model-o",
                                "model-x"}}

InitResolve ==
  /\ args \in ResolveArgs
  /\ disk = ResolveDisk
  /\ \E lang \in ResolveLanguages, name \in RequestedNames :
       call = [fn |-> "get_model", language |-> lang, model_name |-> name,
               done |-> FALSE, catalog |-> FALSE, resolved |-> None,
               result |-> NoModel]
  /\ Fresh

\* one call of get_model on the fresh State
GetModelCall ==
  /\ call.fn = "get_model" /\ ~call.done
  /\ LET r == get_model(call.language, call.model_name)
     IN  /\ call' = [call EXCEPT
                      !.done = TRUE,
                      !.catalog = ConsultsCatalog(args, call.language,
                                                  call.model_name),
                      !.resolved = ResolveName(args, call.language,
                                               call.model_name),
                      !.result = r.result]
         /\ models' = IF r.kind = "disk"
                      THEN CacheStore(models, r.name, r.result) ELSE models
         /\ loaded' = IF r.kind = "disk"
                      THEN loaded \cup {r.result} ELSE loaded
  /\ UNCHANGED <<args, disk, blocking, log, droppedDuring, status, language,
                 model_name, recognizer, built, fed, nEvents, nInfo,
                 nTranscript>>

NextResolve == GetModelCall

SpecResolve == InitResolve /\ [][NextResolve]_vars

(* -------------------- _load_recognizer on its own ---------------------- *)

\* the --casing-for-language settings tried: none, each casing for "en"
CasingChoices ==
  {[l \in {} |-> "keep"]} \cup {[l \in {"en"} |-> c] : c \in CasingNames}

\* the command lines _load_recognizer is examined under
VocabArgs ==
  { [a EXCEPT !.limit_sentences = lim, !.allow_unknown = unk,
              !.casing_for_language = c] :
      a \in ArgsChoices, lim \in BOOLEAN, unk \in BOOLEAN, c \in CasingChoices }

\* the contents of the WORDS table tried
WordLists == {<<>>, <<WordYes>>, <<WordYes, WordNo>>, <<WordEszett, WordNo>>}

\* self.language and self.model_name when _load_recognizer runs
VocabLanguages == {"en", "de", "zz"}
VocabModels == {"model-a", "model-b", "model-d"}

\* the sentence configuration of the language, its WORDS table as in the call
ConfigOfCall ==
  LET cfg == load_sentences_for_language(call.language)
  IN  IF cfg.db THEN [cfg EXCEPT !.words = call.words] ELSE cfg

InitVocab ==
  /\ args \in VocabArgs
  /\ disk = {}
  /\ \E lang \in VocabLanguages, mname \in VocabModels, ws \in WordLists :
       call = [fn |-> "_load_recognizer", language |-> lang,
               model_name |-> mname, words |-> ws, done |-> FALSE,
               grammar |-> OpenVocabulary]
  /\ Fresh

\* one call of _load_recognizer
LoadRecognizerCall ==
  /\ call.fn = "_load_recognizer" /\ ~call.done
  /\ call' = [call EXCEPT
               !.done = TRUE,
               !.grammar = Vocabulary(args, ConfigOfCall, call.language,
                                      call.model_name)]
  /\ UNCHANGED <<args, disk, models, loaded, blocking, log, droppedDuring,
                 status, language, model_name, recognizer, built, fed,
                 nEvents, nInfo, nTranscript>>

NextVocab == LoadRecognizerCall

SpecVocab == InitVocab /\ [][NextVocab]_vars

(* ------------------ the AudioStop branch on its own -------------------- *)

\* --correct-sentences absent, given without a value, given with a cutoff
CutoffChoices == {NoCutoff, 0, 1}

\* the command lines the AudioStop branch is examined under
TextArgs ==
  { [a EXCEPT !.allow_unknown = unk, !.correct_sentences = c] :
      a \in ArgsChoices, unk \in BOOLEAN, c \in CutoffChoices }

\* what load_sentences_for_language gives for the session's language:
\* nothing, sentences without an unknown text, sentences with one
TextConfigs ==
  { NoConfig,
    [exists |-> TRUE, db |-> TRUE, words |-> <<WordYes, WordNo>>,
     has_unknown_text |-> FALSE, unknown_text |-> <<>>,
     sentence |-> <<WordYes>>],
    [exists |-> TRUE, db |-> TRUE, words |-> <<WordYes, WordNo>>,
     has_unknown_text |-> TRUE, unknown_text |-> <<WordNo>>,
     sentence |-> <<WordYes>>] }

\* the texts FinalResult() gives
RawTexts ==
  { <<>>, <<WordYes>>, <<WordNo, WordTwo>>, <<DEFAULT_UNK>>, <<WordAltUnk>>,
    <<WordYes, DEFAULT_UNK>> }

\* self.language and self.model_name when AudioStop is handled
TextLanguages == {"en", "zz"}
TextModels == {"model-a", "model-d"}

InitText ==
  /\ args \in TextArgs
  /\ disk = {}
  /\ \E lang \in TextLanguages, mname \in TextModels, cfg \in TextConfigs,
        raw \in RawTexts :
       call = [fn |-> "AudioStop", language |-> lang, model_name |-> mname,
               config |-> cfg, raw |-> raw, done |-> FALSE,
               out |-> [raised |-> FALSE, text |-> <<>>, corrected |-> FALSE]]
  /\ Fresh

\* the AudioStop branch run on the recognizer's text
FinalTextCall ==
  /\ call.fn = "AudioStop" /\ ~call.done
  /\ call' = [call EXCEPT
               !.done = TRUE,
               !.out = FinalText(args, call.config, call.language,
                                 call.model_name, call.raw)]
  /\ UNCHANGED <<args, disk, models, loaded, blocking, log, droppedDuring,
                 status, language, model_name, recognizer, built, fed,
                 nEvents, nInfo, nTranscript>>

NextText == FinalTextCall

SpecText == InitText /\ [][NextText]_vars

(* ------------------------------ properties ----------------------------- *)

LogIdx == 1..Len(log)

\* the get_model calls, completed or in flight, that invoked download_model
\* for the name
DownloadCalls(n) ==
  Cardinality({i \in LogIdx : log[i].name = n /\ log[i].download # "none"})
    + (IF blocking.s # 0 /\ blocking.name = n THEN 1 ELSE 0)

\* the download_model calls for the name that returned
DownloadsReturned(n) ==
  Cardinality({i \in LogIdx : log[i].name = n /\ log[i].download = "ok"})

\* the Model(...) loads for the name
LoadCalls(n) == Cardinality({i \in LogIdx : log[i].name = n /\ log[i].loads = 1})

ResolvedNames == {log[i].name : i \in LogIdx} \ {None}

\* the fields of one session
SessionOf(s) == <<status[s], language[s], model_name[s], recognizer[s],
                  built[s], fed[s], nInfo[s], nTranscript[s]>>

SessionAfter(s) == <<status'[s], language'[s], model_name'[s], recognizer'[s],
                     built'[s], fed'[s], nInfo'[s], nTranscript'[s]>>

\* C1 as stated: for every model name, download_model and Model(...) are each
\* invoked once only, and all sessions whose get_model call for the name has
\* ended hold the same (model_name, model).
C1_SingleFlightExactlyOnce ==
  \A n \in ResolvedNames :
    /\ DownloadCalls(n) <= 1
    /\ LoadCalls(n) <= 1
    /\ \A i, j \in LogIdx :
         log[i].name = n /\ log[j].name = n => log[i].result = log[j].result

\* C1 amended: for every model name, Model(...) is invoked at most once and at
\* most one download_model call returns, and all sessions whose get_model
\* call for the name returned hold the same (model_name, model), the one in
\* the cache.
C1_SingleLoad ==
  \A n \in ResolvedNames :
    /\ LoadCalls(n) <= 1
    /\ DownloadsReturned(n) <= 1
    /\ \A i \in LogIdx :
         log[i].name = n /\ log[i].result # NoModel =>
           /\ n \in DOMAIN models
           /\ log[i].result = models[n]
           /\ recognizer[log[i].s].model = models[n].model

\* two sessions resolved the same cold name: one downloaded and loaded it,
\* the other got the very same tuple
C1_Witness ==
  \E i, j \in LogIdx :
    /\ i < j
    /\ log[i].s # log[j].s
    /\ log[i].name = log[j].name
    /\ log[i].download = "ok"
    /\ log[j].result = log[i].result

\* C2: a session writes at most one Transcript event; only the AudioStop
\* handler writes it, and with it the handler returns False: the session is
\* done, and no later step changes anything of a session that is done.
C2_OneTranscript ==
  /\ [](\A s \in Sessions :
          /\ nTranscript[s] <= 1
          /\ nTranscript[s] = 1 <=> status[s] = "done")
  /\ [][\A s \in Sessions :
          /\ nTranscript'[s] # nTranscript[s] =>
               /\ status[s] = "open" /\ recognizer[s] # NoRecognizer
               /\ status'[s] = "done"
               /\ UNCHANGED <<models, loaded, fed, built, nInfo>>
          /\ status[s] = "done" => SessionAfter(s) = SessionOf(s)]_vars

\* a session has its Transcript while the clients still have events to send
C2_Witness ==
  \E s \in Sessions :
    nTranscript[s] = 1 /\ status[s] = "done" /\ fed[s] >= 1 /\ nEvents < MaxEvents

\* C3: every (model_name, model) tuple ever loaded is the cache's entry under
\* its name, so there is one tuple per name, and a step never removes or
\* replaces an entry of the cache.
C3_InsertOnly ==
  /\ [](/\ \A m \in loaded : m.name \in DOMAIN models /\ models[m.name] = m
        /\ \A n \in DOMAIN models : models[n].name = n /\ models[n] \in loaded)
  /\ [][\A n \in DOMAIN models :
          n \in DOMAIN models' /\ models'[n] = models[n]]_vars

\* a name was cached, a later get_model cached another name, and the first
\* entry is still the tuple that was loaded for it
C3_Witness ==
  \E i, j \in LogIdx :
    /\ i < j
    /\ log[i].loads = 1 /\ log[j].loads = 1
    /\ log[i].name # log[j].name
    /\ models[log[i].name] = log[i].result

\* C4: of two get_model calls with the same (language, model_name), the first
\* of which returned, the second returns the same tuple and makes no is_dir
\* check, no download_model call and no Model(...) load.
C4_IdempotentCache ==
  \A i, j \in LogIdx :
    /\ i < j
    /\ log[i].language = log[j].language
    /\ log[i].requested = log[j].requested
    /\ log[i].result # NoModel
    => /\ log[j].result = log[i].result
       /\ log[j].kind = "cached"
       /\ log[j].checks = 0
       /\ log[j].download = "none"
       /\ log[j].loads = 0

\* get_model was called twice with the same arguments; the first call found
\* the model in a data dir
C4_Witness ==
  \E i, j \in LogIdx :
    /\ i < j
    /\ log[i].language = log[j].language
    /\ log[i].requested = log[j].requested
    /\ log[i].kind = "disk"
    /\ log[j].result = log[i].result

\* C5 as stated: once a session has its recognizer, no step changes the
\* session's model_name.
C5_ModelNameStable ==
  [][\A s \in Sessions :
       recognizer[s] # NoRecognizer => model_name'[s] = model_name[s]]_vars

\* C6: a session constructs at most one recognizer, in the handler of its
\* first AudioChunk, and once it has one no step replaces it.
C6_RecognizerBuiltOnce ==
  /\ [](\A s \in Sessions :
          /\ built[s] <= 1
          /\ built[s] = 1 <=> recognizer[s] # NoRecognizer)
  /\ [][\A s \in Sessions :
          /\ recognizer[s] # NoRecognizer => recognizer'[s] = recognizer[s]
          /\ built'[s] # built[s] => fed[s] = 0 /\ fed'[s] = 1]_vars

\* a session fed a second chunk, and received a Transcribe, with the
\* recognizer of its first chunk
C6_Witness ==
  \E s \in Sessions :
    /\ built[s] = 1 /\ fed[s] >= 2
    /\ recognizer[s].serial = 1
    /\ model_name[s] = None

\* a step in which get_model is entered or ended for the session, or a
\* recognizer is constructed for it
ResolveActivity(s) ==
  \/ Len(log') > Len(log) /\ log'[Len(log')].s = s
  \/ blocking'.s = s /\ blocking.s # s
  \/ built'[s] # built[s]

\* C7: get_model is called and a recognizer constructed only by the
\* AudioChunk handler (which download_model may keep waiting); a step that
\* is not of that handler changes neither the cache nor the set of loaded
\* models, so a session without an AudioChunk loads and downloads nothing.
C7_LazyRecognizer ==
  /\ [][\A s \in Sessions :
          ResolveActivity(s) =>
            AudioChunk(s) \/ DownloadReturn(s) \/ DownloadRaise(s)]_vars
  /\ [][(\A s \in Sessions : ~ResolveActivity(s)) =>
          UNCHANGED <<models, loaded, disk, log, blocking>>]_vars
  /\ [](\A s \in Sessions : blocking.s = s =>
          recognizer[s] = NoRecognizer /\ fed[s] = 0)

\* a session got Describe and a Transcribe naming a language and a model,
\* and nothing has been resolved, loaded or downloaded
C7_Witness ==
  \E s \in Sessions :
    /\ nInfo[s] >= 1
    /\ Truthy(language[s]) /\ Truthy(model_name[s])
    /\ recognizer[s] = NoRecognizer
    /\ log = <<>> /\ loaded = {} /\ DOMAIN models = {} /\ LoopFree

\* C8 as stated: while the handler of one session is inside download_model,
\* every other open session can have its next event handled.
C8_OthersNotBlocked ==
  \A s, t \in Sessions :
    s # t /\ blocking.s = s /\ status[t] = "open" /\ nEvents < MaxEvents
      => ENABLED Describe(t)

\* C9: a connection that is closed, and the disconnect that follows, change
\* nothing but that session's status; in particular not the download in
\* flight, the cache or another session.  A download_model call that
\* returned, whichever connections were closed meanwhile, left its model in
\* the cache and its session with a recognizer on that model.
C9_DropIsLocal ==
  /\ [][\A t \in Sessions :
          status'[t] # status[t] /\ status'[t] \in {"dropped", "closed"} =>
            /\ UNCHANGED <<models, loaded, disk, blocking, log>>
            /\ \A u \in Sessions \ {t} : SessionAfter(u) = SessionOf(u)
            /\ <<language'[t], model_name'[t], recognizer'[t]>>
                 = <<language[t], model_name[t], recognizer[t]>>]_vars
  /\ [](\A p \in droppedDuring :
          /\ blocking.s # p[2] =>
               \E i \in LogIdx : log[i].s = p[2] /\ log[i].kind = "download"
          /\ \A i \in LogIdx :
               log[i].s = p[2] /\ log[i].download = "ok" =>
                 /\ log[i].name \in DOMAIN models
                 /\ models[log[i].name] = log[i].result
                 /\ recognizer[p[2]].model = log[i].result.model)

\* a connection was closed while another session's download was in flight;
\* the download returned and that session has the model and its cache entry
C9_Witness ==
  \E p \in droppedDuring :
    /\ p[1] # p[2]
    /\ status[p[1]] \in {"dropped", "closed"}
    /\ \E i \in LogIdx :
         /\ log[i].s = p[2] /\ log[i].download = "ok"
         /\ models[log[i].name] = log[i].result
         /\ recognizer[p[2]].model = log[i].result.model

\* a step that ends a get_model call of the session with an exception
ResolveFails(s) ==
  /\ Len(log') = Len(log) + 1
  /\ log'[Len(log')].s = s
  /\ log'[Len(log')].result = NoModel

\* C10: a get_model call that raises (no catalog entry for the language, or
\* download_model failed) ends its own session only: the cache and the
\* loaded models are as before the call, no other session changes, and the
\* event loop is free for the other sessions, which can go on to resolve.
C10_FailureIsLocal ==
  /\ [][\A s \in Sessions :
          ResolveFails(s) =>
            /\ status'[s] = "error"
            /\ UNCHANGED <<models, loaded>>
            /\ blocking' = NotBlocking
            /\ \A u \in Sessions \ {s} : SessionAfter(u) = SessionOf(u)]_vars
  /\ [][blocking' # NotBlocking => UNCHANGED <<models, loaded>>]_vars
  /\ [](\A s, u \in Sessions :
          /\ status[s] = "error" /\ status[u] = "open"
          /\ LoopFree /\ nEvents < MaxEvents
          => ENABLED AudioChunk(u))

\* a session's get_model raised, and afterwards another session resolved a
\* model and built its recognizer
C10_Witness ==
  \E i, j \in LogIdx :
    /\ i < j
    /\ log[i].result = NoModel /\ status[log[i].s] = "error"
    /\ log[j].result # NoModel
    /\ recognizer[log[j].s].model = log[j].result.model

\* C11: an AudioStop handled without a recognizer raises: the session ends in
\* error, writes no Transcript and changes no more; a Transcript is only
\* written by a session that built a recognizer and fed it.
C11_StopWithoutDecoder ==
  /\ [][\A s \in Sessions :
          /\ AudioStop(s) /\ recognizer[s] = NoRecognizer =>
               /\ status'[s] = "error"
               /\ nTranscript'[s] = nTranscript[s]
          /\ status[s] = "error" => SessionAfter(s) = SessionOf(s)]_vars
  /\ [](\A s \in Sessions :
          nTranscript[s] >= 1 => built[s] >= 1 /\ fed[s] >= 1)

\* a session ended in error without ever calling get_model: its AudioStop
\* came before any AudioChunk
C11_Witness ==
  \E s \in Sessions :
    /\ status[s] = "error" /\ built[s] = 0 /\ fed[s] = 0 /\ nTranscript[s] = 0
    /\ blocking.s # s
    /\ \A i \in LogIdx : log[i].s # s

\* the step ends a get_model call with the record e
Resolved(e) == Len(log') = Len(log) + 1 /\ log'[Len(log')] = e

\* no data dir holds a directory named n
OnNoDisk(n) == \A i \in 1..Len(DataDirs) : <<DataDirs[i], n>> \notin disk

\* C14: a get_model call that finds its name uncached loads the model from
\* the first data dir, in the order of DataDirs, that holds a directory of
\* that name, caches and returns it; it calls download_model exactly when the
\* name is neither cached nor in any data dir, and a download that returns is
\* loaded, cached and returned.
C14_SearchOrder ==
  /\ [][\A e \in {log'[i] : i \in 1..Len(log')} :
          Resolved(e) =>
            /\ e.kind = "cached" <=> e.name \in DOMAIN models
            /\ e.kind = "cached" =>
                 e.result = models[e.name] /\ e.checks = 0 /\ e.loads = 0
            /\ e.kind = "disk" =>
                 /\ e.checks \in 1..Len(DataDirs)
                 /\ <<DataDirs[e.checks], e.name>> \in disk
                 /\ \A i \in 1..(e.checks - 1) : <<DataDirs[i], e.name>> \notin disk
                 /\ e.loads = 1 /\ e.result \notin loaded
                 /\ models'[e.name] = e.result
                 /\ recognizer'[e.s].model = e.result.model
            /\ e.download # "none" <=> e.kind = "download"
            /\ e.kind = "download" =>
                 /\ blocking.s = e.s /\ blocking.name = e.name
                 /\ e.name \notin DOMAIN models
                 /\ e.checks = Len(DataDirs)
            /\ e.download = "ok" =>
                 /\ e.loads = 1 /\ e.result \notin loaded
                 /\ models'[e.name] = e.result
                 /\ recognizer'[e.s].model = e.result.model]_vars
  /\ [][\A s \in Sessions :
          AudioChunk(s) /\ recognizer[s] = NoRecognizer =>
            LET n == ResolveName(args, Or(language[s], args.language),
                                 model_name[s])
            IN  (blocking'.s = s) <=>
                  (~Raised(n) /\ n \notin DOMAIN models /\ OnNoDisk(n))]_vars
  /\ [](blocking.s # 0 =>
          blocking.name \notin DOMAIN models /\ OnNoDisk(blocking.name))

\* a model was loaded from the first data dir although the second holds a
\* directory of that name too, and another was loaded from the second data
\* dir or downloaded
C14_Witness ==
  \E i, j \in LogIdx :
    /\ log[i].kind = "disk" /\ log[i].checks = 1
    /\ <<DataDirs[2], log[i].name>> \in disk
    /\ models[log[i].name] = log[i].result
    /\ log[j].name # log[i].name
    /\ log[j].loads = 1

\* C17: Describe is handled whenever the session can handle an event; it
\* writes one Info event and changes neither the session's language, model
\* name, recognizer or status nor the cache, the disk or a download in flight.
C17_DescribeFrame ==
  /\ [](\A s \in Sessions : CanHandle(s) => ENABLED Describe(s))
  /\ [][\A s \in Sessions :
          /\ Describe(s) => nInfo'[s] = nInfo[s] + 1
          /\ nInfo'[s] # nInfo[s] =>
               /\ nInfo'[s] = nInfo[s] + 1
               /\ <<status'[s], language'[s], model_name'[s], recognizer'[s],
                    built'[s], fed'[s], nTranscript'[s]>>
                    = <<status[s], language[s], model_name[s], recognizer[s],
                        built[s], fed[s], nTranscript[s]>>
               /\ UNCHANGED <<models, loaded, disk, blocking, log>>]_vars

\* a session that has its recognizer and a negotiated language got an Info
\* event and can get another
C17_Witness ==
  \E s \in Sessions :
    /\ nInfo[s] >= 1
    /\ recognizer[s] # NoRecognizer /\ fed[s] >= 1
    /\ Truthy(language[s]) /\ model_name[s] \in DOMAIN models
    /\ CanHandle(s)

\* C18 as stated: for a session whose language was unset at its first
\* AudioChunk, get_model was called with the default language, the
\* recognizer's word list was built for the default language, and the
\* language its AudioStop post-processed the transcript with is the default
\* language.
C18_DefaultLanguage ==
  \A i \in LogIdx :
    ~Truthy(log[i].given) =>
      /\ log[i].language = args.language
      /\ recognizer[log[i].s] # NoRecognizer =>
           recognizer[log[i].s].grammar
             = Vocabulary(args, load_sentences_for_language(args.language),
                          args.language, log[i].name)
      /\ status[log[i].s] = "done" => language[log[i].s] = args.language

\* C19: a session whose get_model call returned has a recognizer and fed it
\* its chunk; the recognizer has a word list exactly when --limit-sentences
\* is set and the session's language has a sentence configuration with a
\* database file, and an open vocabulary otherwise.
C19_VocabularyFallback ==
  \A i \in LogIdx :
    log[i].result # NoModel =>
      LET s == log[i].s
          cfg == load_sentences_for_language(log[i].language)
      IN  /\ recognizer[s] # NoRecognizer
          /\ fed[s] >= 1
          /\ recognizer[s].grammar.limited
               <=> (args.limit_sentences /\ cfg.exists /\ cfg.db)
          /\ ~recognizer[s].grammar.limited
               => recognizer[s].grammar = OpenVocabulary

\* with --limit-sentences, one session got a word list and another, whose
\* language has no word database, an open vocabulary
C19_Witness ==
  /\ args.limit_sentences
  /\ \E s, u \in Sessions :
       /\ recognizer[s] # NoRecognizer /\ recognizer[s].grammar.limited
       /\ recognizer[u] # NoRecognizer /\ recognizer[u].grammar = OpenVocabulary
       /\ fed[u] >= 1

\* C20 as stated: a session that wrote its Transcript post-processed it with
\* the language its get_model call was made with.
C20_SameLanguage ==
  \A i \in LogIdx :
    status[log[i].s] = "done" => language[log[i].s] = log[i].language

\* the --model-for-language entry for the language of the call, None without
Override == DictGet(args.model_for_language, call.language, None)

C16_IndexClamp ==
  (/\ call.fn = "get_model" /\ call.done
   /\ ~Truthy(Override) /\ ~Truthy(call.model_name)
   /\ call.language \in DOMAIN MODELS) =>
    LET n == Len(MODELS[call.language])
        i == IF args.model_index < n - 1 THEN args.model_index ELSE n - 1
    IN  /\ i \in 0..(n - 1)
        /\ call.resolved = MODELS[call.language][i + 1]
        /\ call.result.name = call.resolved

\* C12 as stated: with --allow-unknown, when the recognizer's text is the
\* unknown token, the Transcript carries the configuration's unknown text,
\* or the empty text without one, whether --correct-sentences is absent, 0
\* or larger, and correct_sentence is not called.
C12_UnknownShortCircuit ==
  (/\ call.fn = "AudioStop" /\ call.done /\ ~call.out.raised
   /\ args.allow_unknown
   /\ call.raw = <<UnkToken(call.model_name)>>) =>
    /\ call.out.text = UnknownText(call.config)
    /\ ~call.out.corrected

\* C13 as stated: with --limit-sentences, --allow-unknown and a word
\* database, the word list given to the recognizer is the words of the
\* database in the casing settled on, followed by the unknown token as
\* configured, which occurs nowhere else in the list.
C13_SentinelLast ==
  (/\ call.fn = "_load_recognizer" /\ call.done
   /\ args.limit_sentences /\ args.allow_unknown
   /\ ConfigOfCall.exists /\ ConfigOfCall.db) =>
    LET ws == call.grammar.words
        unk == UnkToken(call.model_name)
        casing == CasingFor(args, call.language, call.model_name)
    IN  /\ call.grammar.limited
        /\ Len(ws) = Len(call.words) + 1
        /\ ws[Len(ws)] = unk
        /\ \A i \in 1..Len(call.words) :
             ws[i] = ApplyCasing(casing, call.words[i])
        /\ Cardinality({i \in 1..Len(ws) : ws[i] = unk}) = 1

====
